---- MODULE Spec2Model ----
(***************************************************************************)
(* Model of KZGlobalService (src/src/kz/global/kz_global.cpp): the         *)
(* Heartbeat and Auth periodic tasks, the operation gate and the           *)
(* classification of HTTP responses by Fetch / Register / Update.          *)
(*                                                                         *)
(* Callbacks are delivered on one thread, one at a time, in any order.     *)
(* An HTTP request in flight is answered by exactly one response, chosen   *)
(* when it is delivered.                                                   *)
(***************************************************************************)
EXTENDS Integers, Sequences, FiniteSets, TLC

\* ------------------------------------------------------------------------
\* Bounds of the model
\* ------------------------------------------------------------------------
MaxHeartbeats == 3      \* runs of the Heartbeat task
MaxAuthRuns == 2        \* runs of the Auth task
MaxCalls == 1           \* resource operations outstanding at once

\* ------------------------------------------------------------------------
\* Values
\* ------------------------------------------------------------------------
NoKey == "<nullopt>"            \* std::nullopt of apiKey
NoToken == "<nullopt>"          \* std::nullopt of apiToken
NoBody == "<no body>"           \* response.Body() == std::nullopt
NoAuth == <<>>                  \* request without Authorization header

ConfigKeys == {"", "refresh-key"}       \* values of option "apiKey"
Tokens == {"tok123", "tok456"}

\* Response bodies: not JSON at all, JSON of an unexpected shape, a JSON
\* resource (player / map), and {"access_key": t}.
GarbageBody == "not json"
EmptyObject == "{}"
ResourceBody == "{resource}"
KeyBody(t) == IF t = "tok123" THEN "{access_key:tok123}" ELSE "{access_key:tok456}"
Bodies == {NoBody, GarbageBody, EmptyObject, ResourceBody} \cup {KeyBody(t) : t \in Tokens}

BodiesOf(status) ==
    CASE status = 0 -> {NoBody}
      [] status = 200 -> {NoBody, GarbageBody, EmptyObject, ResourceBody}
      [] status = 201 -> {NoBody, GarbageBody, EmptyObject} \cup {KeyBody(t) : t \in Tokens}
      [] status = 204 -> {NoBody}
      [] status = 404 -> {NoBody, EmptyObject}
      [] OTHER -> {NoBody, GarbageBody}

Statuses == {0, 200, 201, 204, 404, 400, 503}
Responses == {r \in [status : Statuses, body : Bodies] : r.body \in BodiesOf(r.status)}
NoResp == [status |-> -1, body |-> NoBody]

Ops == {"FetchPlayerByName", "FetchPlayerById", "FetchMapByName", "FetchMapById",
        "RegisterPlayer", "UpdatePlayer"}
AuthOps == {"RegisterPlayer", "UpdatePlayer"}
NotRead == "<not read>"
FetchOps == {"FetchPlayerByName", "FetchPlayerById", "FetchMapByName", "FetchMapById"}

VARIABLES
    initialized,            \* KZGlobalService::Init has run
    crashed,                \* an exception left the process
    apiKey,
    isHealthy,
    authTimerInitialized,
    authPayload,
    apiToken,
    heartbeatTimer,         \* the Heartbeat timer is scheduled
    authTimers,             \* number of Auth timers scheduled
    hbInFlight,             \* Heartbeat requests awaiting their response
    authInFlight,           \* Auth requests awaiting their response
    calls,                  \* resource operations awaiting their response
    done,                   \* the resource operation the latest step completed
    hbRuns, authRuns,       \* runs of the two tasks so far
    authStarts,             \* history: calls of StartTimer(Auth, ...)
    authSent,               \* history: POSTs to /servers/key
    hbHealthy,              \* history: number of 200-with-body Heartbeat responses delivered
    keyLog,                 \* history: the 201 Auth responses with access_key delivered, in order
    stale,                  \* history: isHealthy has been false since the 201 Auth response
                            \* with access_key delivered last
    healed                  \* environment: the API answers Heartbeat and Auth well from now on

svc == <<apiKey, isHealthy, authTimerInitialized, authPayload, apiToken>>
sched == <<heartbeatTimer, authTimers, hbInFlight, authInFlight, hbRuns, authRuns>>
hist == <<authStarts, authSent, hbHealthy, keyLog, stale>>
vars == <<initialized, crashed, svc, sched, hist, calls, done, healed>>

\* ------------------------------------------------------------------------
\* Collaborators: JSON codec, resource decoders, Error
\* ------------------------------------------------------------------------
\* json::parse throws on text that is not JSON
JsonParseThrows(body) == body = GarbageBody

\* responseBody.is_object() && responseBody.contains("access_key")
HasAccessKey(body) == \E t \in Tokens : body = KeyBody(t)

\* responseBody["access_key"]
AccessKeyOf(body) == CHOOSE t \in Tokens : body = KeyBody(t)

\* KZ::API::Player::Deserialize / KZ::API::Map::Deserialize return an error
\* for JSON that is not the resource
DeserializeFails(body) == body # ResourceBody

\* KZ::API::Error(status, message)
Error(status, message) == [status |-> status, message |-> message]

\* response.Body().value_or("")
BodyOrEmpty(r) == IF r.body = NoBody THEN "" ELSE r.body

\* ------------------------------------------------------------------------
\* Initial state: the static initialisers
\* ------------------------------------------------------------------------
Init ==
    /\ initialized = FALSE
    /\ crashed = FALSE
    /\ apiKey = NoKey
    /\ isHealthy = FALSE
    /\ authTimerInitialized = FALSE
    /\ authPayload = <<>>
    /\ apiToken = NoToken
    /\ heartbeatTimer = FALSE
    /\ authTimers = 0
    /\ hbInFlight = 0
    /\ authInFlight = 0
    /\ calls = <<>>
    /\ done = <<>>
    /\ hbRuns = 0
    /\ authRuns = 0
    /\ authStarts = 0
    /\ authSent = 0
    /\ hbHealthy = 0
    /\ keyLog = <<>>
    /\ stale = FALSE
    /\ healed = FALSE

\* ------------------------------------------------------------------------
\* KZGlobalService::Init
\* ------------------------------------------------------------------------
\* Init that starts the Auth timer itself, next to the Heartbeat timer
ServiceInit_StartsAuth(cfgKey) ==
    /\ ~initialized
    /\ ~crashed
    /\ initialized' = TRUE
    /\ apiKey' = IF cfgKey = "" THEN apiKey ELSE cfgKey
    /\ heartbeatTimer' = TRUE
    /\ authTimers' = authTimers + 1
    /\ authStarts' = authStarts + 1
    /\ UNCHANGED <<crashed, isHealthy, authTimerInitialized, authPayload, apiToken>>
    /\ UNCHANGED <<hbInFlight, authInFlight, hbRuns, authRuns>>
    /\ done' = <<>>
    /\ UNCHANGED <<authSent, hbHealthy, keyLog, stale, calls, healed>>

ServiceInit(cfgKey) ==
    /\ ~initialized
    /\ ~crashed
    /\ initialized' = TRUE
    /\ apiKey' = IF cfgKey = "" THEN apiKey ELSE cfgKey
    /\ heartbeatTimer' = TRUE
    /\ UNCHANGED <<crashed, isHealthy, authTimerInitialized, authPayload, apiToken>>
    /\ UNCHANGED <<authTimers, hbInFlight, authInFlight, hbRuns, authRuns>>
    /\ done' = <<>>
    /\ UNCHANGED <<hist, calls, healed>>

\* ------------------------------------------------------------------------
\* KZGlobalService::Heartbeat: one run of the task
\* ------------------------------------------------------------------------
HeartbeatRun ==
    /\ heartbeatTimer
    /\ ~crashed
    /\ hbRuns < MaxHeartbeats
    /\ hbRuns' = hbRuns + 1
    /\ hbInFlight' = hbInFlight + 1
    /\ UNCHANGED <<heartbeatTimer, authTimers, authInFlight, authRuns>>
    /\ done' = <<>>
    /\ UNCHANGED <<initialized, crashed, svc, hist, calls, healed>>

\* Heartbeat handler that leaves isHealthy alone on a 200 without a body
HeartbeatCallback_NoBodyKeeps(r, healthy, timerInit) ==
    CASE r.status = 0 -> [healthy |-> FALSE, timerInit |-> timerInit, start |-> FALSE]
      [] r.status = 200 ->
            IF r.body = NoBody
            THEN [healthy |-> healthy, timerInit |-> timerInit, start |-> FALSE]
            ELSE IF ~timerInit
                 THEN [healthy |-> TRUE, timerInit |-> TRUE, start |-> TRUE]
                 ELSE [healthy |-> TRUE, timerInit |-> timerInit, start |-> FALSE]
      [] OTHER -> [healthy |-> FALSE, timerInit |-> timerInit, start |-> FALSE]

\* Heartbeat handler that forgets authTimerInitialized = true
HeartbeatCallback_NoFlag(r, healthy, timerInit) ==
    CASE r.status = 0 -> [healthy |-> FALSE, timerInit |-> timerInit, start |-> FALSE]
      [] r.status = 200 ->
            IF r.body = NoBody
            THEN [healthy |-> FALSE, timerInit |-> timerInit, start |-> FALSE]
            ELSE IF ~timerInit
                 THEN [healthy |-> TRUE, timerInit |-> timerInit, start |-> TRUE]
                 ELSE [healthy |-> TRUE, timerInit |-> timerInit, start |-> FALSE]
      [] OTHER -> [healthy |-> FALSE, timerInit |-> timerInit, start |-> FALSE]

\* The Heartbeat response handler: the values it leaves in isHealthy and
\* authTimerInitialized, and whether it calls StartTimer(Auth, ...).
HeartbeatCallback(r, healthy, timerInit) ==
    CASE r.status = 0 -> [healthy |-> FALSE, timerInit |-> timerInit, start |-> FALSE]
      [] r.status = 200 ->
            IF r.body = NoBody
            THEN [healthy |-> FALSE, timerInit |-> timerInit, start |-> FALSE]
            ELSE IF ~timerInit
                 THEN [healthy |-> TRUE, timerInit |-> TRUE, start |-> TRUE]
                 ELSE [healthy |-> TRUE, timerInit |-> timerInit, start |-> FALSE]
      [] OTHER -> [healthy |-> FALSE, timerInit |-> timerInit, start |-> FALSE]

\* Heartbeat response that drops the token when the API is not healthy
HeartbeatResponse_DropsToken(r) ==
    /\ hbInFlight > 0
    /\ ~crashed
    /\ hbInFlight' = hbInFlight - 1
    /\ LET out == HeartbeatCallback(r, isHealthy, authTimerInitialized) IN
        /\ isHealthy' = out.healthy
        /\ authTimerInitialized' = out.timerInit
        /\ authTimers' = IF out.start THEN authTimers + 1 ELSE authTimers
        /\ authStarts' = IF out.start THEN authStarts + 1 ELSE authStarts
        /\ apiToken' = IF out.healthy THEN apiToken ELSE NoToken
    /\ hbHealthy' = IF r.status = 200 /\ r.body # NoBody THEN hbHealthy + 1 ELSE hbHealthy
    /\ UNCHANGED <<apiKey, authPayload>>
    /\ UNCHANGED <<heartbeatTimer, authInFlight, hbRuns, authRuns>>
    /\ done' = <<>>
    /\ stale' = (stale \/ ~isHealthy')
    /\ UNCHANGED <<initialized, crashed, authSent, keyLog, calls, healed>>

HeartbeatResponse(r) ==
    /\ hbInFlight > 0
    /\ ~crashed
    /\ hbInFlight' = hbInFlight - 1
    /\ LET out == HeartbeatCallback(r, isHealthy, authTimerInitialized) IN
        /\ isHealthy' = out.healthy
        /\ authTimerInitialized' = out.timerInit
        /\ authTimers' = IF out.start THEN authTimers + 1 ELSE authTimers
        /\ authStarts' = IF out.start THEN authStarts + 1 ELSE authStarts
    /\ hbHealthy' = IF r.status = 200 /\ r.body # NoBody THEN hbHealthy + 1 ELSE hbHealthy
    /\ UNCHANGED <<apiKey, authPayload, apiToken>>
    /\ UNCHANGED <<heartbeatTimer, authInFlight, hbRuns, authRuns>>
    /\ done' = <<>>
    /\ stale' = (stale \/ ~isHealthy')
    /\ UNCHANGED <<initialized, crashed, authSent, keyLog, calls, healed>>

\* ------------------------------------------------------------------------
\* KZGlobalService::Auth: one run of the task
\* ------------------------------------------------------------------------
\* Auth that posts without looking at apiKey
AuthRun_NoKeyCheck ==
    /\ authTimers > 0
    /\ ~crashed
    /\ authRuns < MaxAuthRuns
    /\ authRuns' = authRuns + 1
    /\ authPayload' = IF authPayload = <<>>
                      THEN <<"refresh_key", apiKey, "plugin_version", "VERSION_STRING">>
                      ELSE authPayload
    /\ authInFlight' = authInFlight + 1
    /\ authSent' = authSent + 1
    /\ authTimers' = authTimers
    /\ UNCHANGED <<apiKey, isHealthy, authTimerInitialized, apiToken>>
    /\ UNCHANGED <<heartbeatTimer, hbInFlight, hbRuns>>
    /\ done' = <<>>
    /\ UNCHANGED <<initialized, crashed, authStarts, hbHealthy, keyLog, stale, calls, healed>>

\* Auth that returns authInterval also without a key
AuthDelay_NeverCancels(key) == 1

\* The delay Auth returns: negative cancels the timer.
AuthDelay(key) == IF key = NoKey THEN -1 ELSE 1

AuthRun ==
    /\ authTimers > 0
    /\ ~crashed
    /\ authRuns < MaxAuthRuns
    /\ authRuns' = authRuns + 1
    /\ IF apiKey = NoKey
       THEN UNCHANGED <<authPayload, authInFlight, authSent>>
       ELSE /\ authPayload' = IF authPayload = <<>>
                              THEN <<"refresh_key", apiKey, "plugin_version", "VERSION_STRING">>
                              ELSE authPayload
            /\ authInFlight' = authInFlight + 1
            /\ authSent' = authSent + 1
    /\ authTimers' = IF AuthDelay(apiKey) < 0 THEN authTimers - 1 ELSE authTimers
    /\ UNCHANGED <<apiKey, isHealthy, authTimerInitialized, apiToken>>
    /\ UNCHANGED <<heartbeatTimer, hbInFlight, hbRuns>>
    /\ done' = <<>>
    /\ UNCHANGED <<initialized, crashed, authStarts, hbHealthy, keyLog, stale, calls, healed>>

\* Auth handler that drops the token on a status other than 201
AuthCallback_ClearsOnError(r, token) ==
    CASE r.status = 0 -> [token |-> token, threw |-> FALSE]
      [] r.status = 201 ->
            IF r.body = NoBody THEN [token |-> token, threw |-> FALSE]
            ELSE IF JsonParseThrows(r.body) THEN [token |-> token, threw |-> TRUE]
            ELSE IF ~HasAccessKey(r.body) THEN [token |-> token, threw |-> FALSE]
            ELSE [token |-> AccessKeyOf(r.body), threw |-> FALSE]
      [] OTHER -> [token |-> NoToken, threw |-> FALSE]

\* Auth handler that stores a token only while there is none
AuthCallback_KeepsFirst(r, token) ==
    CASE r.status = 0 -> [token |-> token, threw |-> FALSE]
      [] r.status = 201 ->
            IF r.body = NoBody THEN [token |-> token, threw |-> FALSE]
            ELSE IF JsonParseThrows(r.body) THEN [token |-> token, threw |-> TRUE]
            ELSE IF ~HasAccessKey(r.body) THEN [token |-> token, threw |-> FALSE]
            ELSE IF token # NoToken THEN [token |-> token, threw |-> FALSE]
            ELSE [token |-> AccessKeyOf(r.body), threw |-> FALSE]
      [] OTHER -> [token |-> token, threw |-> FALSE]

\* The Auth response handler: [token, threw]
AuthCallback(r, token) ==
    CASE r.status = 0 -> [token |-> token, threw |-> FALSE]
      [] r.status = 201 ->
            IF r.body = NoBody THEN [token |-> token, threw |-> FALSE]
            ELSE IF JsonParseThrows(r.body) THEN [token |-> token, threw |-> TRUE]
            ELSE IF ~HasAccessKey(r.body) THEN [token |-> token, threw |-> FALSE]
            ELSE [token |-> AccessKeyOf(r.body), threw |-> FALSE]
      [] OTHER -> [token |-> token, threw |-> FALSE]

AuthResponse(r) ==
    /\ authInFlight > 0
    /\ ~crashed
    /\ authInFlight' = authInFlight - 1
    /\ LET out == AuthCallback(r, apiToken) IN
        /\ apiToken' = out.token
        /\ IF out.threw THEN crashed' \in BOOLEAN ELSE crashed' = crashed
    /\ keyLog' = IF r.status = 201 /\ r.body \in {KeyBody(t) : t \in Tokens} THEN Append(keyLog, r) ELSE keyLog
    /\ UNCHANGED <<apiKey, isHealthy, authTimerInitialized, authPayload>>
    /\ UNCHANGED <<heartbeatTimer, authTimers, hbInFlight, hbRuns, authRuns>>
    /\ done' = <<>>
    /\ stale' = IF r.status = 201 /\ r.body \in {KeyBody(t) : t \in Tokens} THEN FALSE ELSE stale
    /\ UNCHANGED <<initialized, authStarts, authSent, hbHealthy, calls, healed>>

\* ------------------------------------------------------------------------
\* Resource operations
\* ------------------------------------------------------------------------
apiURL == "https://api.cs2kz.org"

\* KZGlobalService::IsHealthy, KZGlobalService::IsAuthenticated
IsHealthy == isHealthy
IsAuthenticated == apiToken # NoToken

Request(method, url, auth, body) ==
    [method |-> method, url |-> url, auth |-> auth, body |-> body]

\* std::string("Bearer ") + apiToken.value()
Bearer(token) == <<"Bearer ", token>>

\* Invocations of the callbacks a caller passes in
OnSuccess(value) == [cb |-> "onSuccess", present |-> TRUE, status |-> 0, message |-> value]
OnSuccessNullopt == [cb |-> "onSuccess", present |-> FALSE, status |-> 0, message |-> ""]
OnError(e) == [cb |-> "onError", present |-> TRUE, status |-> e.status, message |-> e.message]
OnErrorNullopt == [cb |-> "onError", present |-> FALSE, status |-> 0, message |-> ""]

\* The record of one call of a resource operation: the service state it
\* read (the token only where the operation reads it; for RegisterPlayer
\* also the 201 Auth response with access_key delivered last before the
\* call and whether isHealthy has been false since), what it returned,
\* the requests it sent, the response delivered to it, the callbacks of its
\* caller it invoked, and the calls it made itself.
NewCall(op, origin) ==
    [op |-> op, origin |-> origin,
     healthy |-> isHealthy,
     token |-> IF op \in AuthOps THEN apiToken ELSE NotRead,
     keyResp |-> IF op = "RegisterPlayer" /\ keyLog # <<>> THEN keyLog[Len(keyLog)] ELSE NoResp,
     stale |-> IF op = "RegisterPlayer" THEN stale ELSE FALSE,
     ret |-> FALSE, threw |-> FALSE,
     reqs |-> <<>>, resps |-> <<>>, cbs |-> <<>>, fu |-> <<>>]

UrlOf(op) ==
    CASE op = "FetchPlayerByName" -> <<apiURL, "players", "name">>
      [] op = "FetchPlayerById" -> <<apiURL, "players", "steamID">>
      [] op = "FetchMapByName" -> <<apiURL, "maps", "name">>
      [] op = "FetchMapById" -> <<apiURL, "maps", "id">>
      [] op = "RegisterPlayer" -> <<apiURL, "players">>
      [] op = "UpdatePlayer" -> <<apiURL, "players", "steamID">>

\* FetchPlayerImpl without the return after the gate's onError
FetchPlayerImpl_NoReturn(c, url) ==
    IF ~IsHealthy
    THEN [c EXCEPT !.cbs = Append(@, OnError(Error(503, "unreachable"))),
                   !.reqs = Append(@, Request("GET", url, NoAuth, NoBody)), !.ret = TRUE]
    ELSE [c EXCEPT !.reqs = Append(@, Request("GET", url, NoAuth, NoBody)), !.ret = TRUE]

\* FetchPlayerImpl up to request.Send
FetchPlayerImpl(c, url) ==
    IF ~IsHealthy
    THEN [c EXCEPT !.cbs = Append(@, OnError(Error(503, "unreachable"))), !.ret = FALSE]
    ELSE [c EXCEPT !.reqs = Append(@, Request("GET", url, NoAuth, NoBody)), !.ret = TRUE]

\* Fetch handler that reports a body it cannot decode through onError
FetchPlayerCallback_DecodeError(c, r) ==
    CASE r.status = 0 -> c
      [] r.status = 200 ->
            IF r.body = NoBody THEN c
            ELSE IF JsonParseThrows(r.body) THEN [c EXCEPT !.threw = TRUE]
            ELSE IF DeserializeFails(r.body)
            THEN [c EXCEPT !.cbs = Append(@, OnError(Error(r.status, BodyOrEmpty(r))))]
            ELSE [c EXCEPT !.cbs = Append(@, OnSuccess(r.body))]
      [] r.status = 404 -> [c EXCEPT !.cbs = Append(@, OnSuccessNullopt)]
      [] OTHER -> [c EXCEPT !.cbs = Append(@, OnError(Error(r.status, BodyOrEmpty(r))))]

\* the response handler of FetchPlayerImpl
FetchPlayerCallback(c, r) ==
    CASE r.status = 0 -> c
      [] r.status = 200 ->
            IF r.body = NoBody THEN c
            ELSE IF JsonParseThrows(r.body) THEN [c EXCEPT !.threw = TRUE]
            ELSE IF DeserializeFails(r.body) THEN c
            ELSE [c EXCEPT !.cbs = Append(@, OnSuccess(r.body))]
      [] r.status = 404 -> [c EXCEPT !.cbs = Append(@, OnSuccessNullopt)]
      [] OTHER -> [c EXCEPT !.cbs = Append(@, OnError(Error(r.status, BodyOrEmpty(r))))]

\* FetchMapImpl up to request.Send
FetchMapImpl(c, url) ==
    IF ~IsHealthy
    THEN [c EXCEPT !.cbs = Append(@, OnError(Error(503, "unreachable"))), !.ret = FALSE]
    ELSE [c EXCEPT !.reqs = Append(@, Request("GET", url, NoAuth, NoBody)), !.ret = TRUE]

\* Fetch handler without the case 404
FetchMapCallback_No404(c, r) ==
    CASE r.status = 0 -> c
      [] r.status = 200 ->
            IF r.body = NoBody THEN c
            ELSE IF JsonParseThrows(r.body) THEN [c EXCEPT !.threw = TRUE]
            ELSE IF DeserializeFails(r.body) THEN c
            ELSE [c EXCEPT !.cbs = Append(@, OnSuccess(r.body))]
      [] OTHER -> [c EXCEPT !.cbs = Append(@, OnError(Error(r.status, BodyOrEmpty(r))))]

\* the response handler of FetchMapImpl
FetchMapCallback(c, r) ==
    CASE r.status = 0 -> c
      [] r.status = 200 ->
            IF r.body = NoBody THEN c
            ELSE IF JsonParseThrows(r.body) THEN [c EXCEPT !.threw = TRUE]
            ELSE IF DeserializeFails(r.body) THEN c
            ELSE [c EXCEPT !.cbs = Append(@, OnSuccess(r.body))]
      [] r.status = 404 -> [c EXCEPT !.cbs = Append(@, OnSuccessNullopt)]
      [] OTHER -> [c EXCEPT !.cbs = Append(@, OnError(Error(r.status, BodyOrEmpty(r))))]

\* RegisterPlayer that checks authentication before health
RegisterPlayerImpl_AuthFirst(c) ==
    IF ~IsAuthenticated
    THEN [c EXCEPT !.cbs = Append(@, OnError(Error(401, "server is not global"))), !.ret = FALSE]
    ELSE IF ~IsHealthy
    THEN [c EXCEPT !.cbs = Append(@, OnError(Error(503, "unreachable"))), !.ret = FALSE]
    ELSE [c EXCEPT !.reqs = Append(@, Request("POST", UrlOf("RegisterPlayer"), Bearer(apiToken), "NewPlayer")),
                   !.ret = TRUE]

\* RegisterPlayer without the authentication check, as UpdatePlayer is
RegisterPlayerImpl_NoAuthGate(c) ==
    IF ~IsHealthy
    THEN [c EXCEPT !.cbs = Append(@, OnError(Error(503, "unreachable"))), !.ret = FALSE]
    ELSE IF apiToken = NoToken
    THEN [c EXCEPT !.threw = TRUE]
    ELSE [c EXCEPT !.reqs = Append(@, Request("POST", UrlOf("RegisterPlayer"), Bearer(apiToken), "NewPlayer")),
                   !.ret = TRUE]

\* KZGlobalService::RegisterPlayer up to request.Send
RegisterPlayerImpl(c) ==
    IF ~IsHealthy
    THEN [c EXCEPT !.cbs = Append(@, OnError(Error(503, "unreachable"))), !.ret = FALSE]
    ELSE IF ~IsAuthenticated
    THEN [c EXCEPT !.cbs = Append(@, OnError(Error(401, "server is not global"))), !.ret = FALSE]
    ELSE [c EXCEPT !.reqs = Append(@, Request("POST", UrlOf("RegisterPlayer"), Bearer(apiToken), "NewPlayer")),
                   !.ret = TRUE]

\* Register handler that takes 200 for success as well
RegisterCallback_200Too(c, r) ==
    CASE r.status = 0 -> c
      [] r.status \in {200, 201} ->
            [c EXCEPT !.fu = Append(@, FetchPlayerImpl(NewCall("FetchPlayerById", "RegisterPlayer"),
                                                       UrlOf("FetchPlayerById")))]
      [] OTHER -> [c EXCEPT !.cbs = Append(@, OnError(Error(r.status, BodyOrEmpty(r))))]

\* Register handler that sends the follow-up GET itself, past the gate
RegisterCallback_UngatedFollowUp(c, r) ==
    CASE r.status = 0 -> c
      [] r.status = 201 ->
            [c EXCEPT !.fu = Append(@, [NewCall("FetchPlayerById", "RegisterPlayer") EXCEPT
                                            !.reqs = <<Request("GET", UrlOf("FetchPlayerById"), NoAuth, NoBody)>>,
                                            !.ret = TRUE])]
      [] OTHER -> [c EXCEPT !.cbs = Append(@, OnError(Error(r.status, BodyOrEmpty(r))))]

\* the response handler of RegisterPlayer; on 201 it calls
\* FetchPlayer(steamID, ...) with callbacks of its own
RegisterCallback(c, r) ==
    CASE r.status = 0 -> c
      [] r.status = 201 ->
            [c EXCEPT !.fu = Append(@, FetchPlayerImpl(NewCall("FetchPlayerById", "RegisterPlayer"),
                                                       UrlOf("FetchPlayerById")))]
      [] OTHER -> [c EXCEPT !.cbs = Append(@, OnError(Error(r.status, BodyOrEmpty(r))))]

\* KZGlobalService::UpdatePlayer up to request.Send; apiToken.value()
\* throws std::bad_optional_access when there is no token
UpdatePlayerImpl(c) ==
    IF ~IsHealthy
    THEN [c EXCEPT !.cbs = Append(@, OnError(Error(503, "unreachable"))), !.ret = FALSE]
    ELSE IF apiToken = NoToken
    THEN [c EXCEPT !.threw = TRUE]
    ELSE [c EXCEPT !.reqs = Append(@, Request("PATCH", UrlOf("UpdatePlayer"), Bearer(apiToken), "PlayerUpdate")),
                   !.ret = TRUE]

\* Update handler without the case 204
UpdateCallback_No204(c, r) ==
    CASE r.status = 0 -> c
      [] OTHER -> [c EXCEPT !.cbs = Append(@, OnError(Error(r.status, BodyOrEmpty(r))))]

\* the response handler of UpdatePlayer
UpdateCallback(c, r) ==
    CASE r.status = 0 -> c
      [] r.status = 204 -> [c EXCEPT !.cbs = Append(@, OnErrorNullopt)]
      [] OTHER -> [c EXCEPT !.cbs = Append(@, OnError(Error(r.status, BodyOrEmpty(r))))]

\* An exception leaves the function; whether the process survives it is up
\* to the frames above.
Throws(c) == IF c.threw THEN crashed' \in BOOLEAN ELSE crashed' = crashed

RemoveAt(s, i) == SubSeq(s, 1, i - 1) \o SubSeq(s, i + 1, Len(s))

\* A call returns: it awaits a response if it sent a request.
Returned(c) ==
    /\ IF c.reqs # <<>>
       THEN calls' = Append(calls, c) /\ done' = <<>>
       ELSE calls' = calls /\ done' = <<c>>
    /\ Throws(c)
    /\ UNCHANGED <<initialized, svc, sched, hist, healed>>

CanCall == initialized /\ ~crashed /\ Len(calls) < MaxCalls

FetchPlayer(op) ==
    /\ CanCall
    /\ op \in {"FetchPlayerByName", "FetchPlayerById"}
    /\ Returned(FetchPlayerImpl(NewCall(op, "caller"), UrlOf(op)))

FetchMap(op) ==
    /\ CanCall
    /\ op \in {"FetchMapByName", "FetchMapById"}
    /\ Returned(FetchMapImpl(NewCall(op, "caller"), UrlOf(op)))

RegisterPlayer ==
    /\ CanCall
    /\ Returned(RegisterPlayerImpl(NewCall("RegisterPlayer", "caller")))

UpdatePlayer ==
    /\ CanCall
    /\ Returned(UpdatePlayerImpl(NewCall("UpdatePlayer", "caller")))

\* Delivery that takes a 503 from the API for a failed health check
Delivered_Marks503Unhealthy(i, c) ==
    /\ done' = <<c>>
    /\ calls' = RemoveAt(calls, i) \o SelectSeq(c.fu, LAMBDA f : f.reqs # <<>>)
    /\ Throws(c)
    /\ isHealthy' = IF c.resps[Len(c.resps)].status = 503 THEN FALSE ELSE isHealthy
    /\ UNCHANGED <<apiKey, authTimerInitialized, authPayload, apiToken>>
    /\ UNCHANGED <<initialized, sched, hist, healed>>

\* The response to the request of calls[i] is delivered.
Delivered(i, c) ==
    /\ done' = <<c>>
    /\ calls' = RemoveAt(calls, i) \o SelectSeq(c.fu, LAMBDA f : f.reqs # <<>>)
    /\ Throws(c)
    /\ UNCHANGED <<initialized, svc, sched, hist, healed>>

Received(c, r) == [c EXCEPT !.resps = Append(@, r)]

FetchPlayerResponse(i, r) ==
    /\ ~crashed
    /\ i \in 1..Len(calls)
    /\ calls[i].op \in {"FetchPlayerByName", "FetchPlayerById"}
    /\ Delivered(i, FetchPlayerCallback(Received(calls[i], r), r))

FetchMapResponse(i, r) ==
    /\ ~crashed
    /\ i \in 1..Len(calls)
    /\ calls[i].op \in {"FetchMapByName", "FetchMapById"}
    /\ Delivered(i, FetchMapCallback(Received(calls[i], r), r))

RegisterResponse(i, r) ==
    /\ ~crashed
    /\ i \in 1..Len(calls)
    /\ calls[i].op = "RegisterPlayer"
    /\ Delivered(i, RegisterCallback(Received(calls[i], r), r))

UpdateResponse(i, r) ==
    /\ ~crashed
    /\ i \in 1..Len(calls)
    /\ calls[i].op = "UpdatePlayer"
    /\ Delivered(i, UpdateCallback(Received(calls[i], r), r))

\* ------------------------------------------------------------------------
Next ==
    \/ \E k \in ConfigKeys : ServiceInit(k)
    \/ HeartbeatRun
    \/ \E r \in Responses : HeartbeatResponse(r)
    \/ AuthRun
    \/ \E r \in Responses : AuthResponse(r)
    \/ \E op \in Ops : FetchPlayer(op)
    \/ \E op \in Ops : FetchMap(op)
    \/ RegisterPlayer
    \/ UpdatePlayer
    \/ \E i \in 1..MaxCalls, r \in Responses : FetchPlayerResponse(i, r)
    \/ \E i \in 1..MaxCalls, r \in Responses : FetchMapResponse(i, r)
    \/ \E i \in 1..MaxCalls, r \in Responses : RegisterResponse(i, r)
    \/ \E i \in 1..MaxCalls, r \in Responses : UpdateResponse(i, r)

Spec == Init /\ [][Next]_vars

\* ------------------------------------------------------------------------
\* Recovery: at some point the API heals, and from then on every Heartbeat
\* response is a 200 with a body and every Auth response a 201 with an
\* access_key.  The scheduler runs each task that is due and the transport
\* delivers every response.
\* ------------------------------------------------------------------------
HealthyResponse(r) == r.status = 200 /\ r.body # NoBody
KeyResponse(r) == r.status = 201 /\ r.body \in {KeyBody(t) : t \in Tokens}

Heal ==
    /\ initialized
    /\ ~healed
    /\ hbRuns < MaxHeartbeats
    /\ authRuns < MaxAuthRuns
    /\ healed' = TRUE
    /\ UNCHANGED <<initialized, crashed, svc, sched, hist, calls, done>>

DeliverHeartbeat == \E r \in Responses : (healed => HealthyResponse(r)) /\ HeartbeatResponse(r)
DeliverAuth == \E r \in Responses : (healed => KeyResponse(r)) /\ AuthResponse(r)

LiveNext ==
    \/ \E k \in ConfigKeys : ServiceInit(k)
    \/ Heal
    \/ HeartbeatRun
    \/ DeliverHeartbeat
    \/ AuthRun
    \/ DeliverAuth
    \/ \E op \in Ops : FetchPlayer(op)
    \/ \E op \in Ops : FetchMap(op)
    \/ RegisterPlayer
    \/ UpdatePlayer
    \/ \E i \in 1..MaxCalls, r \in Responses : FetchPlayerResponse(i, r)
    \/ \E i \in 1..MaxCalls, r \in Responses : FetchMapResponse(i, r)
    \/ \E i \in 1..MaxCalls, r \in Responses : RegisterResponse(i, r)
    \/ \E i \in 1..MaxCalls, r \in Responses : UpdateResponse(i, r)

LiveSpec ==
    /\ Init
    /\ [][LiveNext]_vars
    /\ WF_vars(HeartbeatRun)
    /\ WF_vars(DeliverHeartbeat)
    /\ WF_vars(AuthRun)
    /\ WF_vars(DeliverAuth)

\* Every call record the state holds: outstanding, completed last, and the
\* calls made by the completed one.
Records ==
    {calls[i] : i \in 1..Len(calls)}
        \cup {done[i] : i \in 1..Len(done)}
        \cup UNION {{done[i].fu[j] : j \in 1..Len(done[i].fu)} : i \in 1..Len(done)}

TypeOK ==
    /\ initialized \in BOOLEAN
    /\ isHealthy \in BOOLEAN
    /\ apiToken \in Tokens \cup {NoToken}
    /\ Len(calls) <= MaxCalls
    /\ Len(done) <= 1
    /\ stale \in BOOLEAN
    /\ healed \in BOOLEAN

\* ------------------------------------------------------------------------
\* Properties
\* ------------------------------------------------------------------------
Unreachable == OnError(Error(503, "unreachable"))
NotGlobal == OnError(Error(401, "server is not global"))

\* The callback sequence is one onError carrying an Error of this status
ErrorWithStatus(cbs, status) ==
    /\ Len(cbs) = 1
    /\ cbs[1].cb = "onError"
    /\ cbs[1].present
    /\ cbs[1].status = status

\* C1: an operation called while isHealthy is false sends no request,
\* invokes the error callback once with {503, "unreachable"} before it
\* returns, and returns false; for RegisterPlayer with or without a token.
C1_UnhealthyGate ==
    \A c \in Records :
        ~c.healthy =>
            /\ c.reqs = <<>>
            /\ c.cbs = <<Unreachable>>
            /\ ~c.ret
            /\ ~c.threw

\* RegisterPlayer was called unhealthy while holding a token
C1_Witness ==
    \E c \in Records :
        /\ c.op = "RegisterPlayer"
        /\ ~c.healthy
        /\ c.token \in Tokens
        /\ c.cbs = <<Unreachable>>

\* C2: RegisterPlayer called healthy and without a token sends no request,
\* invokes the error callback once with {401, "server is not global"}
\* before it returns, and returns false.
C2_UnauthenticatedGate ==
    \A c \in Records :
        (c.op = "RegisterPlayer" /\ c.healthy /\ c.token = NoToken) =>
            /\ c.reqs = <<>>
            /\ c.cbs = <<NotGlobal>>
            /\ ~c.ret
            /\ ~c.threw

C2_Witness ==
    \E c \in Records :
        /\ c.op = "RegisterPlayer"
        /\ c.healthy
        /\ c.token = NoToken
        /\ c.cbs = <<NotGlobal>>

\* C3: isHealthy is the classification of the Heartbeat response delivered
\* last: it is false while none has been delivered, the delivery of a
\* response sets it to true exactly for a 200 with a body, and no other
\* step changes it.
C3_HealthIsLastHeartbeat ==
    /\ [](hbRuns = hbInFlight => ~isHealthy)
    /\ [][/\ \A r \in Responses :
                HeartbeatResponse(r) => isHealthy' = (r.status = 200 /\ r.body # NoBody)
          /\ (~ \E r \in Responses : HeartbeatResponse(r)) => isHealthy' = isHealthy]_vars

\* every Heartbeat response was delivered, one of them healthy, and the
\* last one was not
C3_Witness ==
    /\ hbRuns >= 2
    /\ hbInFlight = 0
    /\ hbHealthy >= 1
    /\ ~isHealthy

\* C4: the Auth task is started at most once, and not before a Heartbeat
\* response of status 200 with a body has been delivered.
C4_AuthStartedOnce ==
    /\ authStarts <= 1
    /\ authStarts >= 1 => hbHealthy >= 1

\* two healthy Heartbeat responses were delivered
C4_Witness ==
    /\ hbHealthy >= 2
    /\ authStarts = 1

C6_FetchClassification ==
    \A c \in Records :
        (c.op \in FetchOps /\ c.resps # <<>>) =>
            /\ c.resps[1].status = 404 => c.cbs = <<OnSuccessNullopt>>
            /\ c.resps[1].status \notin {0, 200, 404} => ErrorWithStatus(c.cbs, c.resps[1].status)

C6_Witness ==
    \E c \in Records :
        /\ c.op \in {"FetchMapByName", "FetchMapById"}
        /\ c.resps # <<>>
        /\ c.resps[1].status = 404
        /\ c.cbs = <<OnSuccessNullopt>>

\* C7: a call invokes at most one callback of its caller, at most once: no
\* call awaiting a response has invoked one, and a completed call has
\* invoked at most one.
C7_AtMostOneCallback ==
    /\ \A i \in 1..Len(calls) : calls[i].cbs = <<>>
    /\ \A c \in Records : Len(c.cbs) <= 1 /\ Len(c.resps) <= 1

\* a response was delivered and one callback invoked
C7_Witness ==
    \E c \in Records :
        /\ c.op \in {"FetchPlayerByName", "FetchPlayerById"}
        /\ Len(c.resps) = 1
        /\ Len(c.cbs) = 1

\* C8: a Register that received 201 made exactly one follow-up
\* FetchPlayer(steamID) call and did not invoke its error callback; one
\* that received another non-zero status made none and invoked its error
\* callback with an Error of that status.
C8_RegisterFollowUp ==
    \A c \in Records :
        (c.op = "RegisterPlayer" /\ c.resps # <<>>) =>
            /\ c.resps[1].status = 201 =>
                /\ Len(c.fu) = 1
                /\ c.fu[1].op = "FetchPlayerById"
                /\ c.cbs = <<>>
            /\ c.resps[1].status \notin {0, 201} =>
                /\ c.fu = <<>>
                /\ ErrorWithStatus(c.cbs, c.resps[1].status)

C8_Witness ==
    \E c \in Records :
        /\ c.op = "RegisterPlayer"
        /\ c.resps # <<>>
        /\ c.resps[1].status = 201
        /\ Len(c.fu) = 1

\* C9: an Update that received 204 invoked its callback with an absent
\* error; one that received another non-zero status invoked it with an
\* Error of that status; one that received status 0 invoked nothing.
C9_UpdateClassification ==
    \A c \in Records :
        (c.op = "UpdatePlayer" /\ c.resps # <<>>) =>
            /\ c.resps[1].status = 204 => c.cbs = <<OnErrorNullopt>>
            /\ c.resps[1].status \notin {0, 204} => ErrorWithStatus(c.cbs, c.resps[1].status)
            /\ c.resps[1].status = 0 => c.cbs = <<>>

C9_Witness ==
    \E c \in Records :
        /\ c.op = "UpdatePlayer"
        /\ c.resps # <<>>
        /\ c.resps[1].status = 204
        /\ c.cbs = <<OnErrorNullopt>>

\* C10: a Register request sent to the transport carries Authorization:
\* Bearer t, t being the access_key of the 201 Auth response with
\* access_key delivered last before the call; none is sent without a token.
C10_RegisterBearer ==
    \A c \in Records :
        (c.op = "RegisterPlayer" /\ c.reqs # <<>>) =>
            /\ c.keyResp # NoResp
            /\ c.reqs[1].auth = Bearer(AccessKeyOf(c.keyResp.body))

\* Register was sent after a second token replaced the first
C10_Witness ==
    \E c \in Records :
        /\ c.op = "RegisterPlayer"
        /\ c.reqs # <<>>
        /\ Len(keyLog) = 2
        /\ keyLog[1].body = KeyBody("tok123")
        /\ keyLog[2].body = KeyBody("tok456")
        /\ c.keyResp = keyLog[2]
        /\ c.reqs[1].auth = Bearer("tok456")

\* C11: delivery of an Auth response with status 201 and a body holding
\* access_key sets apiToken to that value; delivery of any other Auth
\* response (status 0, 201 without body, 201 without access_key, another
\* status) leaves apiToken as it was.
C11_AuthTokenFrame ==
    [][\A r \in Responses :
           AuthResponse(r) =>
               apiToken' = IF KeyResponse(r) THEN AccessKeyOf(r.body) ELSE apiToken]_vars

\* a token was stored, and a later Auth response that was no 201 with
\* access_key has been delivered and left it in place
C11_Witness ==
    /\ authSent = 2
    /\ authInFlight = 0
    /\ Len(keyLog) = 1
    /\ apiToken = AccessKeyOf(keyLog[1].body)
    /\ ~crashed

\* C12: a Fetch whose response is status 0, a 200 without body or a 200
\* with a body that does not decode invokes no callback; a Register whose
\* response is status 0 invokes no callback and makes no follow-up fetch.
C12_SilentDrop ==
    \A c \in Records :
        /\ (/\ c.op \in FetchOps
            /\ c.resps # <<>>
            /\ \/ c.resps[1].status = 0
               \/ c.resps[1].status = 200 /\ c.resps[1].body \in {NoBody, GarbageBody, EmptyObject})
                => c.cbs = <<>>
        /\ (c.op = "RegisterPlayer" /\ c.resps # <<>> /\ c.resps[1].status = 0)
                => (c.cbs = <<>> /\ c.fu = <<>>)

\* a player fetch got a 200 whose body is JSON but no player
C12_Witness ==
    \E c \in Records :
        /\ c.op \in {"FetchPlayerByName", "FetchPlayerById"}
        /\ c.origin = "caller"
        /\ c.resps # <<>>
        /\ c.resps[1].status = 200
        /\ c.resps[1].body = EmptyObject
        /\ c.cbs = <<>>

\* C13: UpdatePlayer called while healthy and without a token sends the
\* PATCH and returns true.
C13_UpdateSentWithoutToken ==
    \A c \in Records :
        (c.op = "UpdatePlayer" /\ c.healthy /\ c.token = NoToken) =>
            (c.reqs # <<>> /\ c.ret)

\* C14: without an API key no POST to /servers/key is sent, a run of Auth
\* cancels its timer, apiToken is absent, and a RegisterPlayer call sends
\* nothing and fails at the gate with 503 or 401.
C14_NoKey ==
    apiKey = NoKey =>
        /\ authSent = 0
        /\ authInFlight = 0
        /\ authPayload = <<>>
        /\ authTimers = authStarts - authRuns
        /\ apiToken = NoToken
        /\ \A c \in Records :
               c.op = "RegisterPlayer" =>
                   /\ c.reqs = <<>>
                   /\ ~c.ret
                   /\ c.cbs \in {<<Unreachable>>, <<NotGlobal>>}

\* without a key Auth has run and cancelled itself, and a Register called
\* while healthy was turned down as not global
C14_Witness ==
    /\ initialized
    /\ apiKey = NoKey
    /\ authRuns = 1
    /\ authTimers = 0
    /\ \E c \in Records :
           /\ c.op = "RegisterPlayer"
           /\ c.healthy
           /\ c.cbs = <<NotGlobal>>

\* C15: whatever response is delivered to Heartbeat or to Auth, the tasks
\* go on: the process that runs them is alive, the Heartbeat timer stays
\* scheduled, and no Auth timer is cancelled.
C15_TasksNeverStop ==
    [][\A r \in Responses :
           (HeartbeatResponse(r) \/ AuthResponse(r)) =>
               /\ ~crashed'
               /\ heartbeatTimer'
               /\ authTimers' >= authTimers]_vars

\* C16: apiToken, once present, is present in every later state; a
\* RegisterPlayer call made while healthy with a token present is sent with
\* that token, also when isHealthy has been false since the token arrived.
C16_TokenNeverCleared ==
    /\ [][(apiToken \in Tokens) => (apiToken' \in Tokens)]_vars
    /\ [](\A c \in Records :
             (c.op = "RegisterPlayer" /\ c.healthy /\ c.token \in Tokens) =>
                 /\ c.ret
                 /\ c.reqs = <<Request("POST", UrlOf("RegisterPlayer"), Bearer(c.token), "NewPlayer")>>)

\* Register went out with a token that predates a false->true health flip
C16_Witness ==
    \E c \in Records :
        /\ c.op = "RegisterPlayer"
        /\ c.stale
        /\ c.healthy
        /\ c.token \in Tokens
        /\ c.reqs # <<>>
        /\ c.reqs[1].auth = Bearer(c.token)

\* A step of a resource operation: a call, or delivery of a response to one
ResourceStep ==
    \/ \E op \in Ops : FetchPlayer(op)
    \/ \E op \in Ops : FetchMap(op)
    \/ RegisterPlayer
    \/ UpdatePlayer
    \/ \E i \in 1..MaxCalls, r \in Responses : FetchPlayerResponse(i, r)
    \/ \E i \in 1..MaxCalls, r \in Responses : FetchMapResponse(i, r)
    \/ \E i \in 1..MaxCalls, r \in Responses : RegisterResponse(i, r)
    \/ \E i \in 1..MaxCalls, r \in Responses : UpdateResponse(i, r)

\* C17: isHealthy changes only when a Heartbeat response is delivered,
\* authTimerInitialized only then and only from false to true, apiToken
\* only when an Auth response is delivered; calls of Fetch/Register/Update
\* and deliveries of their responses change none of isHealthy,
\* authTimerInitialized, apiKey and apiToken.
C17_SingleWriter ==
    [][/\ isHealthy' # isHealthy => \E r \in Responses : HeartbeatResponse(r)
       /\ authTimerInitialized' # authTimerInitialized =>
              /\ \E r \in Responses : HeartbeatResponse(r)
              /\ ~authTimerInitialized
              /\ authTimerInitialized'
       /\ apiToken' # apiToken => \E r \in Responses : AuthResponse(r)
       /\ ResourceStep => UNCHANGED <<isHealthy, authTimerInitialized, apiKey, apiToken>>]_vars

\* a 503 was delivered to a resource operation and the service is still
\* healthy and authenticated
C17_Witness ==
    /\ isHealthy
    /\ authTimerInitialized
    /\ apiToken \in Tokens
    /\ \E i \in 1..Len(done) :
           /\ done[i].resps # <<>>
           /\ done[i].resps[1].status = 503

\* C18: apiToken present implies an API key is configured, the Auth timer
\* has been started, and a 200-with-body Heartbeat response was delivered.
C18_TokenImplies ==
    apiToken \in Tokens =>
        /\ apiKey # NoKey
        /\ authTimerInitialized
        /\ authStarts = 1
        /\ hbHealthy >= 1

\* a token is present while isHealthy is false again
C18_Witness ==
    /\ apiToken \in Tokens
    /\ ~isHealthy
    /\ hbHealthy >= 1

\* C19: when a 201 is delivered to Register, its handler makes one
\* follow-up FetchPlayer by id that goes through the health gate as
\* isHealthy is then: unhealthy, it sends nothing and the handler's own
\* error callback gets {503, "unreachable"}; healthy, it sends one GET
\* /players/<id>.  The caller's error callback is not invoked either way.
C19_FollowUpGated ==
    \A i \in 1..Len(done) :
        (/\ done[i].op = "RegisterPlayer"
         /\ done[i].resps # <<>>
         /\ done[i].resps[1].status = 201) =>
            /\ done[i].cbs = <<>>
            /\ Len(done[i].fu) = 1
            /\ done[i].fu[1].op = "FetchPlayerById"
            /\ done[i].fu[1].healthy = isHealthy
            /\ IF isHealthy
               THEN /\ done[i].fu[1].reqs = <<Request("GET", UrlOf("FetchPlayerById"), NoAuth, NoBody)>>
                    /\ done[i].fu[1].cbs = <<>>
               ELSE /\ done[i].fu[1].reqs = <<>>
                    /\ done[i].fu[1].cbs = <<Unreachable>>

\* isHealthy went false between the Register call and its 201
C19_Witness ==
    \E i \in 1..Len(done) :
        /\ done[i].op = "RegisterPlayer"
        /\ done[i].healthy
        /\ done[i].resps # <<>>
        /\ done[i].resps[1].status = 201
        /\ ~isHealthy
        /\ Len(done[i].fu) = 1
        /\ done[i].fu[1].reqs = <<>>
        /\ done[i].fu[1].cbs = <<Unreachable>>

\* C20: with an API key, once the API has healed, the service eventually is
\* healthy and authenticated and stays so.
C20_Recovery ==
    (healed /\ apiKey # NoKey) ~> [](isHealthy /\ apiToken \in Tokens)

====
